---------------------------- MODULE Spec2Model ----------------------------
(***************************************************************************)
(* State-machine model of src/PycharmProjects/TweetDelete/main.py: the     *)
(* TwitterCleaner run (authenticate, confirm, resolve the preserve set,    *)
(* fetch the paged history, classify, delete, report) against a scripted   *)
(* platform client.                                                        *)
(*                                                                         *)
(* The platform client (tweepy.Client) is external.  Its answers are a     *)
(* script fixed in the initial state (variable client): what get_user      *)
(* answers per username, the pages get_users_tweets serves per pagination  *)
(* token, which request raises, and which delete_tweet calls raise.  The   *)
(* outcome of get_me and the text typed at the prompt are chosen when the  *)
(* program asks for them.                                                  *)
(***************************************************************************)
EXTENDS Integers, Sequences, FiniteSets, TLC

VARIABLES
    DRY_RUN,                 \* main.py:21, module-level configuration
    MAX_TWEETS_TO_PROCESS,   \* main.py:23, None or a number
    PRESERVE_RETWEETS_FROM,  \* main.py:14-18, list of usernames
    client,                  \* script of the platform client (self.client)
    pc,                      \* position of the program in __main__ / run
    confirm,                 \* run: what was typed at the prompt, or None
    user_ids,                \* get_user_ids_to_preserve: the set being built
    name_idx,                \* get_user_ids_to_preserve: usernames consumed
    all_tweets,              \* get_all_tweets: the list being built
    pagination_token,        \* get_all_tweets: the cursor
    tweets_to_delete,        \* run: the delete list
    tweets_to_keep,          \* run: the keep list
    i,                       \* delete_tweets: enumerate index
    deleted_count,           \* delete_tweets
    failed_count,            \* delete_tweets
    calls,                   \* history: client calls and sleeps, in order
    output                   \* history: what was printed, in order

vars == <<DRY_RUN, MAX_TWEETS_TO_PROCESS, PRESERVE_RETWEETS_FROM, client, pc,
          confirm, user_ids, name_idx, all_tweets, pagination_token, tweets_to_delete,
          tweets_to_keep, i, deleted_count, failed_count, calls, output>>

-----------------------------------------------------------------------------
(* Bounds of the scenario families.                                        *)

MaxNames == 2
MaxPages == 3
MaxPageSize == 2
MaxRefs == 2
MaxBatch == 3
MaxCap == 2
MaxRequests == 5

-----------------------------------------------------------------------------
(* Values.                                                                 *)

\* Python's None, for pagination_token and MAX_TWEETS_TO_PROCESS: an optional
\* value v is None or Some(v).
None == <<>>
Some(v) == <<v>>

\* Python truthiness of an optional number: None and 0 are falsy.
Truthy(m) == m # None /\ m[1] # 0

Digits == <<"0", "1", "2", "3", "4", "5", "6", "7", "8", "9">>

\* str(n) of a non-negative integer: its decimal digits.
RECURSIVE Str(_)
Str(n) == IF n < 10 THEN Digits[n + 1]
          ELSE Str(n \div 10) \o Digits[(n % 10) + 1]

\* f'ref_tweet_{ref_tweet_id}_author'
AuthorKey(id) == "ref_tweet_" \o Str(id) \o "_author"

Usernames == {"username1", "username2", "username3"}

\* The account id the platform holds for a username.
AccountId(name) ==
    CASE name = "username1" -> 7
      [] name = "username2" -> 12
      [] OTHER -> 71

\* ref.type values of the platform.
Kinds == {"retweeted", "quoted"}

\* Ids of the posts other posts refer to, and the author of each.
TargetIds == {101, 102}
TrueAuthor(id) == IF id = 101 THEN 7 ELSE 12

\* What the prompt can be answered with.
Inputs == {"DELETE", "delete"}

SeqsUpTo(S, n) == UNION {[1..k -> S] : k \in 0..n}

Range(s) == {s[k] : k \in DOMAIN s}

\* A set of integers as an ascending sequence.
RECURSIVE Ascending(_)
Ascending(S) ==
    IF S = {} THEN <<>>
    ELSE LET m == CHOOSE x \in S : \A y \in S : x <= y
         IN <<m>> \o Ascending(S \ {m})


-----------------------------------------------------------------------------
(* The platform's data, as tweepy hands it to the program.                 *)

\* One entry of tweet.referenced_tweets.
Ref(type, id) == [type |-> type, id |-> id]

\* One tweet of tweets.data (text and created_at are only copied and printed).
RawTweet(id, refs) == [id |-> id, referenced_tweets |-> refs]

\* tweets.includes['tweets'] for a set of referenced posts.
Includes(S) ==
    LET ids == Ascending(S)
    IN [k \in 1..Len(ids) |-> [id |-> ids[k], author_id |-> TrueAuthor(ids[k])]]

\* One response of get_users_tweets: data, includes['tweets'], meta next_token.
Page(data, includes, next) ==
    [data |-> data, includes |-> includes, next_token |-> next]

\* The id of the j-th post of page k.
PostId(k, j) == 10 * k + j

\* Pages whose tokens chain: page k names page k+1, the last names none.
Chain(ps) ==
    [k \in 1..Len(ps) |->
        Page(ps[k].data, ps[k].includes,
             IF k < Len(ps) THEN Some(k + 1) ELSE None)]

\* Pages whose tokens go round: the last page names page back again.
Cycle(ps, back) ==
    [k \in 1..Len(ps) |->
        Page(ps[k].data, ps[k].includes,
             IF k < Len(ps) THEN Some(k + 1) ELSE Some(back))]

\* A page of n posts; the even ones are retweets of post 101.
PatternPage(k, n) ==
    Page([j \in 1..n |->
            RawTweet(PostId(k, j),
                     IF j % 2 = 0 THEN <<Ref("retweeted", 101)>> ELSE <<>>)],
         Includes({101}), None)

\* A page of one post with the given references.
RefPage(k, refs, inc) == Page(<<RawTweet(PostId(k, 1), refs)>>, Includes(inc), None)

\* What get_user answers for a username.
Lookup(outcome, name) == [kind |-> outcome, id |-> AccountId(name)]
Directories == [Usernames -> {"found", "notfound", "error"}]
DefaultDirectory ==
    [n \in Usernames |->
        CASE n = "username1" -> "found"
          [] n = "username2" -> "notfound"
          [] OTHER -> "error"]
DefaultNames == <<"username1", "username2", "username3">>

Client(directory, pages, fail_at, delete_fails) ==
    [directory |-> directory, pages |-> Chain(pages), fail_at |-> fail_at,
     delete_fails |-> delete_fails]

Scenario(dry, max, names, cl) ==
    [dry |-> dry, max |-> max, names |-> names, client |-> cl]

DefaultPages == <<PatternPage(1, 2)>>

\* Every list of usernames against every pattern of lookup outcomes.
ResolverScenarios ==
    {Scenario(TRUE, None, names, Client(d, DefaultPages, 0, {})) :
        names \in SeqsUpTo(Usernames, MaxNames), d \in Directories}

\* Every sequence of page sizes, with and without a failing request.
PageScenarios ==
    UNION {{Scenario(dry, None, DefaultNames,
                     Client(DefaultDirectory,
                            [k \in 1..n |-> PatternPage(k, sizes[k])], f, {})) :
               sizes \in [1..n -> 0..MaxPageSize], f \in 0..n, dry \in BOOLEAN} :
           n \in 1..MaxPages}

\* Every reference list against every expansion payload and preserve set,
\* alone or followed by a second page whose expansion payload holds every
\* target.
RefLists == SeqsUpTo({Ref(t, id) : t \in Kinds, id \in TargetIds}, MaxRefs)
PreserveDirectories ==
    {d \in Directories : d["username3"] = "error" /\ d["username2"] # "error"
                         /\ d["username1"] # "error"}
RefScenarios ==
    {Scenario(dry, None, DefaultNames,
              Client(d, <<RefPage(1, refs, inc)>>, 0, {})) :
        dry \in BOOLEAN, d \in PreserveDirectories,
        refs \in RefLists, inc \in SUBSET TargetIds}
    \cup
    {Scenario(TRUE, None, DefaultNames,
              Client(d, <<RefPage(1, refs, inc), RefPage(2, <<>>, TargetIds)>>,
                     0, {})) :
        d \in PreserveDirectories, refs \in RefLists, inc \in SUBSET TargetIds}

\* Every batch length against every cap, mode and pattern of delete failures.
Caps == {None} \cup {Some(n) : n \in 0..MaxCap}
DeleteScenarios ==
    UNION {{Scenario(dry, max, <<>>,
                     Client(DefaultDirectory,
                            <<Page([j \in 1..n |-> RawTweet(PostId(1, j), <<>>)],
                                   <<>>, None)>>, 0, fails)) :
               dry \in BOOLEAN, max \in Caps,
               fails \in SUBSET {PostId(1, j) : j \in 1..n}} :
           n \in 0..MaxBatch}

\* A platform that never answers with a page without next token.
CycleScenarios ==
    UNION {{Scenario(TRUE, None, DefaultNames,
                     [directory |-> DefaultDirectory,
                      pages |-> Cycle([k \in 1..n |-> PatternPage(k, 1)], back),
                      fail_at |-> 0, delete_fails |-> {}]) :
               back \in 1..n} :
           n \in 1..MaxPages}

Scenarios ==
    ResolverScenarios \cup PageScenarios \cup RefScenarios \cup DeleteScenarios
       \cup CycleScenarios


-----------------------------------------------------------------------------
(* History entries.                                                        *)

\* A call of the platform client, or a time.sleep (op "sleep", n in ms).
Call(op, name, n, token) == [op |-> op, name |-> name, n |-> n, token |-> token]

\* A printed line: what it says and the numbers it carries.
Line(tag, args) == [tag |-> tag, args |-> args]

\* time.sleep(0.5) between page requests and RATE_LIMIT_DELAY, in milliseconds.
FETCH_DELAY == 500
RATE_LIMIT_DELAY == 1000

-----------------------------------------------------------------------------
(* get_user_ids_to_preserve, lines 47-62.                                  *)

\* self.client.get_user(username=username)
get_user(cl, name) == Lookup(cl.directory[name], name)

\* The body of the try for one username: the set after it.
AddUser(ids, user) ==
    IF user.kind = "found" THEN ids \cup {Str(user.id)} ELSE ids

\* The line printed for one username.
LookupLine(user, k) ==
    CASE user.kind = "found" -> Line("will_preserve", <<k, user.id>>)
      [] user.kind = "notfound" -> Line("warning_not_found", <<k>>)
      [] OTHER -> Line("error_looking_up", <<k>>)

-----------------------------------------------------------------------------
(* get_all_tweets, lines 64-114.                                           *)

\* The page a pagination token stands for: None is the first.
PageIndex(token) == IF token = None THEN 1 ELSE token[1]

\* The number of get_users_tweets calls made.
Requested(made) ==
    Len(SelectSeq(made, LAMBDA c : c.op = "get_users_tweets"))

\* Whether get_users_tweets raises for this token.
RequestRaises(cl, token) ==
    \/ PageIndex(token) = cl.fail_at
    \/ PageIndex(token) \notin DOMAIN cl.pages

\* Variant of AuthorKeys: the loop over the includes starts at the second.
RECURSIVE AuthorKeysSkipFirst(_, _)
AuthorKeysSkipFirst(includes, k) ==
    IF k <= 1 THEN <<>>
    ELSE LET before == AuthorKeysSkipFirst(includes, k - 1)
             key == AuthorKey(includes[k].id)
         IN [x \in DOMAIN before \cup {key} |->
                IF x = key THEN includes[k].author_id ELSE before[x]]

\* Lines 92-94: the author keys one record gets from the page's includes.
RECURSIVE AuthorKeys(_, _)
AuthorKeys(includes, k) ==
    IF k = 0 THEN <<>>
    ELSE LET before == AuthorKeys(includes, k - 1)
             key == AuthorKey(includes[k].id)
         IN [x \in DOMAIN before \cup {key} |->
                IF x = key THEN includes[k].author_id ELSE before[x]]

\* Lines 84-94: the dict built for one tweet of a page.
TweetDict(tweet, page) ==
    [id |-> tweet.id,
     referenced_tweets |-> tweet.referenced_tweets,
     authors |-> AuthorKeys(page.includes, Len(page.includes))]

\* Variant of AppendPage: the list is assigned the page instead of extended.
AppendPageOverwrite(tweets, page) ==
    [j \in 1..Len(page.data) |->
        [id |-> page.data[j].id,
         referenced_tweets |-> page.data[j].referenced_tweets,
         authors |-> AuthorKeys(page.includes, Len(page.includes))]]

\* Lines 82-96: all_tweets after the page's tweets are appended.
AppendPage(tweets, page) ==
    tweets \o [j \in 1..Len(page.data) |-> TweetDict(page.data[j], page)]

\* Variant of HasNext: a page without tweets ends the loop.
HasNextNonEmpty(page) == page.next_token # None /\ page.data # <<>>

\* Lines 101-104: whether the loop goes on after this page.
HasNext(page) == page.next_token # None

-----------------------------------------------------------------------------
(* should_delete_tweet, lines 116-133.                                     *)

\* Variant of RefPreserves: any author the record carries is looked at, not
\* the one under the key of the reference.
RefPreservesAnyAuthor(tweet, ref, preserve_user_ids) ==
    /\ ref.type = "retweeted"
    /\ \E key \in DOMAIN tweet.authors :
          Str(tweet.authors[key]) \in preserve_user_ids

\* Variant of RefPreserves: the reference's type is not looked at.
RefPreservesAnyKind(tweet, ref, preserve_user_ids) ==
    /\ AuthorKey(ref.id) \in DOMAIN tweet.authors
    /\ Str(tweet.authors[AuthorKey(ref.id)]) \in preserve_user_ids

\* Lines 121-130 for one reference: whether it makes the function return False.
RefPreserves(tweet, ref, preserve_user_ids) ==
    /\ ref.type = "retweeted"
    /\ AuthorKey(ref.id) \in DOMAIN tweet.authors
    /\ Str(tweet.authors[AuthorKey(ref.id)]) \in preserve_user_ids

\* The for loop from reference k on.
RECURSIVE ScanRefs(_, _, _)
ScanRefs(tweet, preserve_user_ids, k) ==
    IF k > Len(tweet.referenced_tweets) THEN TRUE
    ELSE IF RefPreserves(tweet, tweet.referenced_tweets[k], preserve_user_ids)
         THEN FALSE
         ELSE ScanRefs(tweet, preserve_user_ids, k + 1)

should_delete_tweet(tweet, preserve_user_ids) ==
    IF tweet.referenced_tweets # <<>>
    THEN ScanRefs(tweet, preserve_user_ids, 1)
    ELSE TRUE

-----------------------------------------------------------------------------
(* run, lines 192-200: the filter loop.                                    *)

\* Variant of FilterDelete: a tweet to delete is put at the head of the list.
RECURSIVE FilterDeleteAtHead(_, _, _)
FilterDeleteAtHead(tweets, preserve_user_ids, k) ==
    IF k = 0 THEN <<>>
    ELSE LET before == FilterDeleteAtHead(tweets, preserve_user_ids, k - 1)
         IN IF should_delete_tweet(tweets[k], preserve_user_ids)
            THEN <<tweets[k]>> \o before ELSE before

\* Variant of FilterDelete: the answer of should_delete_tweet is not used.
RECURSIVE FilterDeleteEvery(_, _, _)
FilterDeleteEvery(tweets, preserve_user_ids, k) ==
    IF k = 0 THEN <<>>
    ELSE Append(FilterDeleteEvery(tweets, preserve_user_ids, k - 1), tweets[k])

RECURSIVE FilterDelete(_, _, _)
FilterDelete(tweets, preserve_user_ids, k) ==
    IF k = 0 THEN <<>>
    ELSE LET before == FilterDelete(tweets, preserve_user_ids, k - 1)
         IN IF should_delete_tweet(tweets[k], preserve_user_ids)
            THEN Append(before, tweets[k]) ELSE before

RECURSIVE FilterKeep(_, _, _)
FilterKeep(tweets, preserve_user_ids, k) ==
    IF k = 0 THEN <<>>
    ELSE LET before == FilterKeep(tweets, preserve_user_ids, k - 1)
         IN IF should_delete_tweet(tweets[k], preserve_user_ids)
            THEN before ELSE Append(before, tweets[k])

-----------------------------------------------------------------------------
(* delete_tweets, lines 135-164.                                           *)

\* Line 141: the cap check at the head of iteration idx.
CapReached(max, idx) == Truthy(max) /\ idx >= max[1]

\* self.client.delete_tweet(tweet_id) raises.
DeleteRaises(cl, tweet_id) == tweet_id \in cl.delete_fails


-----------------------------------------------------------------------------
(* The program.                                                            *)

\* The state when __main__ starts, for one configuration and client script.
Start(sc) ==
    /\ DRY_RUN = sc.dry
    /\ MAX_TWEETS_TO_PROCESS = sc.max
    /\ PRESERVE_RETWEETS_FROM = sc.names
    /\ client = sc.client
    /\ pc = "init"
    /\ confirm = None
    /\ user_ids = {}
    /\ name_idx = 0
    /\ all_tweets = <<>>
    /\ pagination_token = None
    /\ tweets_to_delete = <<>>
    /\ tweets_to_keep = <<>>
    /\ i = 0
    /\ deleted_count = 0
    /\ failed_count = 0
    /\ calls = <<>>
    /\ output = <<>>

Init == \E sc \in Scenarios : Start(sc)

config == <<DRY_RUN, MAX_TWEETS_TO_PROCESS, PRESERVE_RETWEETS_FROM, client>>
resolver == <<user_ids, name_idx>>
fetcher == <<all_tweets, pagination_token>>
lists == <<tweets_to_delete, tweets_to_keep>>
tallies == <<i, deleted_count, failed_count>>

\* Variant of Authenticate: after a failed get_me the run is started anyway.
AuthenticateFailureContinues ==
    /\ pc = "init"
    /\ calls' = Append(calls, Call("get_me", "", 0, None))
    /\ \/ /\ pc' = "run"
          /\ output' = Append(output, Line("authenticated", <<>>))
       \/ /\ pc' = "run"
          /\ output' = Append(output, Line("error", <<>>))
    /\ UNCHANGED <<config, confirm, resolver, fetcher, lists, tallies>>

\* __main__ lines 246-257 with __init__ lines 27-45: get_me answers with the
\* user, answers without data, or raises; the last two end in the handler of
\* line 252.
Authenticate ==
    /\ pc = "init"
    /\ calls' = Append(calls, Call("get_me", "", 0, None))
    /\ \/ /\ pc' = "run"
          /\ output' = Append(output, Line("authenticated", <<>>))
       \/ /\ pc' = "error"
          /\ output' = Append(output, Line("error", <<>>))
    /\ UNCHANGED <<config, confirm, resolver, fetcher, lists, tallies>>

\* Variant of Confirm: what was typed is not compared with 'DELETE'.
ConfirmIgnoresInput ==
    /\ pc = "run"
    /\ \/ /\ DRY_RUN
          /\ output' = Append(output, Line("dry_run_mode", <<>>))
          /\ UNCHANGED confirm
       \/ /\ ~DRY_RUN
          /\ \E typed \in Inputs : confirm' = Some(typed)
          /\ output' = Append(output, Line("warning", <<>>))
    /\ pc' = "resolve"
    /\ UNCHANGED <<config, resolver, fetcher, lists, tallies, calls>>

\* Variant of Confirm: a destructive run starts without the warning and the
\* prompt.
ConfirmSkipsPrompt ==
    /\ pc = "run"
    /\ \/ /\ DRY_RUN
          /\ output' = Append(output, Line("dry_run_mode", <<>>))
       \/ /\ ~DRY_RUN
          /\ output' = output
    /\ pc' = "resolve"
    /\ UNCHANGED <<config, confirm, resolver, fetcher, lists, tallies, calls>>

\* run lines 168-180: the banner, and in a destructive run the prompt.
Confirm ==
    /\ pc = "run"
    /\ \/ /\ DRY_RUN
          /\ output' = Append(output, Line("dry_run_mode", <<>>))
          /\ pc' = "resolve"
          /\ UNCHANGED confirm
       \/ /\ ~DRY_RUN
          /\ \E typed \in Inputs :
                /\ confirm' = Some(typed)
                /\ IF typed # "DELETE"
                   THEN /\ output' = output \o <<Line("warning", <<>>),
                                                 Line("aborted", <<>>)>>
                        /\ pc' = "done"
                   ELSE /\ output' = Append(output, Line("warning", <<>>))
                        /\ pc' = "resolve"
    /\ UNCHANGED <<config, resolver, fetcher, lists, tallies, calls>>

\* Variant of LookupUser: the try is around the loop, so a lookup that raises
\* ends it.
LookupUserErrorEndsLoop ==
    /\ pc = "resolve"
    /\ name_idx < Len(PRESERVE_RETWEETS_FROM)
    /\ LET username == PRESERVE_RETWEETS_FROM[name_idx + 1]
           user == get_user(client, username)
       IN /\ calls' = Append(calls, Call("get_user", username, 0, None))
          /\ user_ids' = AddUser(user_ids, user)
          /\ output' = Append(output, LookupLine(user, name_idx + 1))
          /\ name_idx' = IF user.kind = "error"
                         THEN Len(PRESERVE_RETWEETS_FROM) ELSE name_idx + 1
    /\ UNCHANGED <<config, pc, confirm, fetcher, lists, tallies>>

\* get_user_ids_to_preserve lines 51-60: one iteration of the loop.
LookupUser ==
    /\ pc = "resolve"
    /\ name_idx < Len(PRESERVE_RETWEETS_FROM)
    /\ LET username == PRESERVE_RETWEETS_FROM[name_idx + 1]
           user == get_user(client, username)
       IN /\ calls' = Append(calls, Call("get_user", username, 0, None))
          /\ user_ids' = AddUser(user_ids, user)
          /\ output' = Append(output, LookupLine(user, name_idx + 1))
    /\ name_idx' = name_idx + 1
    /\ UNCHANGED <<config, pc, confirm, fetcher, lists, tallies>>

\* Line 62 and run line 186, get_all_tweets lines 66-69: the set is returned
\* and the fetch starts with an empty list and no cursor.
StartFetch ==
    /\ pc = "resolve"
    /\ name_idx = Len(PRESERVE_RETWEETS_FROM)
    /\ all_tweets' = <<>>
    /\ pagination_token' = None
    /\ output' = Append(output, Line("fetching", <<>>))
    /\ pc' = "fetch"
    /\ UNCHANGED <<config, confirm, resolver, lists, tallies, calls>>

\* Variant of FetchPageError: the exception is not caught in get_all_tweets and
\* reaches the handler of __main__.
FetchPageErrorRaises ==
    /\ pc = "fetch"
    /\ RequestRaises(client, pagination_token)
    /\ calls' = Append(calls, Call("get_users_tweets", "", 0, pagination_token))
    /\ output' = Append(output, Line("error", <<>>))
    /\ pc' = "error"
    /\ UNCHANGED <<config, confirm, resolver, fetcher, lists, tallies>>

\* get_all_tweets lines 72-80 and 109-114: the request raises; the error is
\* printed, the loop left, the total printed and the list returned.
FetchPageError ==
    /\ pc = "fetch"
    /\ Requested(calls) < MaxRequests
    /\ RequestRaises(client, pagination_token)
    /\ calls' = Append(calls, Call("get_users_tweets", "", 0, pagination_token))
    /\ output' = output \o <<Line("error_fetching", <<>>),
                             Line("total_fetched", <<Len(all_tweets)>>)>>
    /\ pc' = "classify"
    /\ UNCHANGED <<config, confirm, resolver, fetcher, lists, tallies>>

\* Variant of FetchPage: the next request repeats the token of this one.
FetchPageKeepsToken ==
    /\ pc = "fetch"
    /\ Requested(calls) < MaxRequests
    /\ ~RequestRaises(client, pagination_token)
    /\ LET request == Call("get_users_tweets", "", 0, pagination_token)
           tweets == client.pages[PageIndex(pagination_token)]
           got == IF tweets.data # <<>>
                  THEN AppendPage(all_tweets, tweets) ELSE all_tweets
           so_far == IF tweets.data # <<>>
                     THEN <<Line("fetched_so_far", <<Len(got)>>)>>
                     ELSE <<>>
       IN /\ all_tweets' = got
          /\ IF HasNext(tweets)
             THEN /\ pagination_token' = pagination_token
                  /\ calls' = calls \o
                        <<request, Call("sleep", "", FETCH_DELAY, None)>>
                  /\ output' = output \o so_far
                  /\ pc' = "fetch"
             ELSE /\ pagination_token' = pagination_token
                  /\ calls' = Append(calls, request)
                  /\ output' = output \o so_far \o
                        <<Line("total_fetched", <<Len(got)>>)>>
                  /\ pc' = "classify"
    /\ UNCHANGED <<config, confirm, resolver, lists, tallies>>

\* get_all_tweets lines 72-107 and 113-114: the request answers with a page;
\* its tweets are appended, and the loop goes on with the next token or is
\* left, the total printed and the list returned.
FetchPage ==
    /\ pc = "fetch"
    /\ Requested(calls) < MaxRequests
    /\ ~RequestRaises(client, pagination_token)
    /\ LET request == Call("get_users_tweets", "", 0, pagination_token)
           tweets == client.pages[PageIndex(pagination_token)]
           got == IF tweets.data # <<>>
                  THEN AppendPage(all_tweets, tweets) ELSE all_tweets
           so_far == IF tweets.data # <<>>
                     THEN <<Line("fetched_so_far", <<Len(got)>>)>>
                     ELSE <<>>
       IN /\ all_tweets' = got
          /\ IF HasNext(tweets)
             THEN /\ pagination_token' = tweets.next_token
                  /\ calls' = calls \o
                        <<request, Call("sleep", "", FETCH_DELAY, None)>>
                  /\ output' = output \o so_far
                  /\ pc' = "fetch"
             ELSE /\ pagination_token' = pagination_token
                  /\ calls' = Append(calls, request)
                  /\ output' = output \o so_far \o
                        <<Line("total_fetched", <<Len(got)>>)>>
                  /\ pc' = "classify"
    /\ UNCHANGED <<config, confirm, resolver, lists, tallies>>

\* run lines 188-229: nothing fetched, or the filter loop, the summary and
\* the start of delete_tweets (lines 137-138).
Classify ==
    /\ pc = "classify"
    /\ IF all_tweets = <<>>
       THEN /\ output' = Append(output, Line("no_tweets_found", <<>>))
            /\ pc' = "done"
            /\ UNCHANGED lists
       ELSE LET del == FilterDelete(all_tweets, user_ids, Len(all_tweets))
                keep == FilterKeep(all_tweets, user_ids, Len(all_tweets))
                summary == Line("summary",
                                <<Len(all_tweets), Len(del), Len(keep)>>)
            IN /\ tweets_to_delete' = del
               /\ tweets_to_keep' = keep
               /\ IF del = <<>>
                  THEN /\ output' = output \o
                             <<summary, Line("no_tweets_to_delete", <<>>)>>
                       /\ pc' = "done"
                  ELSE /\ output' = output \o
                             <<summary, Line("starting", <<>>)>>
                       /\ pc' = "delete"
    /\ i' = 0
    /\ deleted_count' = 0
    /\ failed_count' = 0
    /\ UNCHANGED <<config, confirm, resolver, fetcher, calls>>

\* The for loop of delete_tweets is at a tweet the cap does not stop.
AtTweet ==
    /\ pc = "delete"
    /\ i < Len(tweets_to_delete)
    /\ ~CapReached(MAX_TWEETS_TO_PROCESS, i)

\* Variant of DeleteSimulated: the dry run calls delete_tweet all the same.
DeleteSimulatedCalls ==
    /\ AtTweet
    /\ DRY_RUN
    /\ calls' = Append(calls,
                       Call("delete_tweet", "", tweets_to_delete[i + 1].id, None))
    /\ output' = Append(output,
                        Line("dry_run_would_delete", <<tweets_to_delete[i + 1].id>>))
    /\ deleted_count' = deleted_count + 1
    /\ i' = i + 1
    /\ UNCHANGED <<config, pc, confirm, resolver, fetcher, lists, failed_count>>

\* delete_tweets lines 140-150: one iteration in dry-run mode.
DeleteSimulated ==
    /\ AtTweet
    /\ DRY_RUN
    /\ output' = Append(output,
                        Line("dry_run_would_delete", <<tweets_to_delete[i + 1].id>>))
    /\ deleted_count' = deleted_count + 1
    /\ i' = i + 1
    /\ UNCHANGED <<config, pc, confirm, resolver, fetcher, lists, failed_count,
                   calls>>

\* delete_tweets lines 140-158: one iteration whose delete_tweet call returns.
DeleteSucceeds ==
    /\ AtTweet
    /\ ~DRY_RUN
    /\ LET tweet_id == tweets_to_delete[i + 1].id
       IN /\ ~DeleteRaises(client, tweet_id)
          /\ calls' = calls \o <<Call("delete_tweet", "", tweet_id, None),
                                 Call("sleep", "", RATE_LIMIT_DELAY, None)>>
          /\ output' = Append(output, Line("deleted", <<tweet_id>>))
    /\ deleted_count' = deleted_count + 1
    /\ i' = i + 1
    /\ UNCHANGED <<config, pc, confirm, resolver, fetcher, lists, failed_count>>

\* Variant of DeleteFails: the exception is not caught in the loop and ends it.
DeleteFailsEndsLoop ==
    /\ AtTweet
    /\ ~DRY_RUN
    /\ LET tweet_id == tweets_to_delete[i + 1].id
       IN /\ DeleteRaises(client, tweet_id)
          /\ calls' = Append(calls, Call("delete_tweet", "", tweet_id, None))
          /\ output' = Append(output, Line("failed_to_delete", <<tweet_id>>))
    /\ failed_count' = failed_count + 1
    /\ i' = i + 1
    /\ pc' = "report"
    /\ UNCHANGED <<config, confirm, resolver, fetcher, lists, deleted_count>>

\* delete_tweets lines 140-153 and 160-162: one iteration whose delete_tweet
\* call raises.
DeleteFails ==
    /\ AtTweet
    /\ ~DRY_RUN
    /\ LET tweet_id == tweets_to_delete[i + 1].id
       IN /\ DeleteRaises(client, tweet_id)
          /\ calls' = Append(calls, Call("delete_tweet", "", tweet_id, None))
          /\ output' = Append(output, Line("failed_to_delete", <<tweet_id>>))
    /\ failed_count' = failed_count + 1
    /\ i' = i + 1
    /\ UNCHANGED <<config, pc, confirm, resolver, fetcher, lists, deleted_count>>

\* delete_tweets lines 141-143 and 164: the loop ends at the cap or at the end
\* of the list and the tallies are returned.
DeleteReturn ==
    /\ pc = "delete"
    /\ \/ /\ i < Len(tweets_to_delete)
          /\ CapReached(MAX_TWEETS_TO_PROCESS, i)
          /\ output' = Append(output,
                              Line("reached_maximum", <<MAX_TWEETS_TO_PROCESS[1]>>))
       \/ /\ i = Len(tweets_to_delete)
          /\ output' = output
    /\ pc' = "report"
    /\ UNCHANGED <<config, confirm, resolver, fetcher, lists, tallies, calls>>

\* run lines 233-243: the final report.
Report ==
    /\ pc = "report"
    /\ output' = Append(output,
                        Line("completed", <<deleted_count, failed_count,
                                            Len(tweets_to_keep)>>))
    /\ pc' = "done"
    /\ UNCHANGED <<config, confirm, resolver, fetcher, lists, tallies, calls>>

\* __main__ lines 250-251: Ctrl+C at any point of the run.
Interrupt ==
    /\ pc \notin {"done", "error", "interrupted"}
    /\ output' = Append(output, Line("interrupted", <<>>))
    /\ pc' = "interrupted"
    /\ UNCHANGED <<config, confirm, resolver, fetcher, lists, tallies, calls>>

Next ==
    \/ Authenticate
    \/ Confirm
    \/ LookupUser
    \/ StartFetch
    \/ FetchPageError
    \/ FetchPage
    \/ Classify
    \/ DeleteSimulated
    \/ DeleteSucceeds
    \/ DeleteFails
    \/ DeleteReturn
    \/ Report
    \/ Interrupt

Spec == Init /\ [][Next]_vars


-----------------------------------------------------------------------------
(* Vocabulary of the properties.                                           *)

Printed(tag) == \E k \in DOMAIN output : output[k].tag = tag
CallsOf(op) == SelectSeq(calls, LAMBDA c : c.op = op)

\* get_all_tweets has returned; run has built its two lists.
FetchReturned == Printed("total_fetched")
Classified == Printed("summary")

Ids(tweets) == [k \in DOMAIN tweets |-> tweets[k].id]
RetweetRefs(tweet) ==
    {r \in Range(tweet.referenced_tweets) : r.type = "retweeted"}

\* The page that carried a post, and whether its expansion payload holds a
\* target id (and the author it gives for it).
PageOfPost(tweet) == client.pages[tweet.id \div 10]
InPayload(page, id) == \E m \in DOMAIN page.includes : page.includes[m].id = id
PayloadAuthor(page, id) ==
    (CHOOSE e \in Range(page.includes) : e.id = id).author_id

\* A record holds a resolved author for a reference.
Resolved(tweet, ref) == AuthorKey(ref.id) \in DOMAIN tweet.authors
ResolvedAuthor(tweet, ref) == tweet.authors[AuthorKey(ref.id)]

\* The classification rule of the data model: some retweet reference has a
\* resolved author in the preserve set.
Qualifies(tweet, preserve) ==
    \E r \in RetweetRefs(tweet) :
        Resolved(tweet, r) /\ Str(ResolvedAuthor(tweet, r)) \in preserve

Perms(n) == {f \in [1..n -> 1..n] : Range(f) = 1..n}
Reordered(tweet, f) ==
    [tweet EXCEPT !.referenced_tweets =
        [k \in DOMAIN f |-> tweet.referenced_tweets[f[k]]]]

PreserveSets == SUBSET {Str(AccountId(n)) : n \in Usernames}

\* The posts of pages 1..k, in page order and in-page order.
RECURSIVE PostsUpTo(_, _)
PostsUpTo(pages, k) ==
    IF k = 0 THEN <<>> ELSE PostsUpTo(pages, k - 1) \o pages[k].data

RECURSIVE SumSizes(_, _)
SumSizes(pages, k) ==
    IF k = 0 THEN 0 ELSE SumSizes(pages, k - 1) + Len(pages[k].data)

AsFetched(tweets) ==
    [k \in DOMAIN tweets |-> RawTweet(tweets[k].id, tweets[k].referenced_tweets)]

-----------------------------------------------------------------------------
(* C1: should_delete_tweet answers Preserve (False) exactly when the post  *)
(* has a retweet reference whose resolved author id is in the preserve     *)
(* set, for every post run is about to classify and every preserve set,    *)
(* whatever the order of the references; the two lists of run follow that  *)
(* answer.                                                                 *)
C1_PreserveIffRetweetOfPreserved ==
    \A t \in Range(all_tweets) :
        /\ pc = "classify" =>
              \A P \in PreserveSets \cup {user_ids} :
                 /\ should_delete_tweet(t, P) <=> ~Qualifies(t, P)
                 /\ \A f \in Perms(Len(t.referenced_tweets)) :
                       should_delete_tweet(Reordered(t, f), P)
                           <=> should_delete_tweet(t, P)
        /\ Classified =>
              /\ t \in Range(tweets_to_keep) <=> Qualifies(t, user_ids)
              /\ t \in Range(tweets_to_delete) <=> ~Qualifies(t, user_ids)

\* A post kept for its second reference, a retweet, after a quote.
C1_Witness ==
    /\ Classified
    /\ \E t \in Range(tweets_to_keep) :
          /\ Len(t.referenced_tweets) = 2
          /\ t.referenced_tweets[1].type = "quoted"
          /\ t.referenced_tweets[2].type = "retweeted"
          /\ ~should_delete_tweet(t, user_ids)

-----------------------------------------------------------------------------
(* C2, as amended: in every list of the run a retweet reference of a       *)
(* record is resolved exactly when the expansion payload of the page that  *)
(* carried the post holds its target id, and then to the author that       *)
(* payload gives; a post with a retweet reference its own page does not    *)
(* resolve is classified Delete unless another retweet reference of the    *)
(* same post is resolved to an author in the preserve set.                 *)
C2_ResolvedOnlyFromOwnPage ==
    /\ \A t \in Range(all_tweets) \cup Range(tweets_to_delete)
                \cup Range(tweets_to_keep) :
          \A r \in RetweetRefs(t) :
             /\ Resolved(t, r) <=> InPayload(PageOfPost(t), r.id)
             /\ Resolved(t, r) =>
                   ResolvedAuthor(t, r) = PayloadAuthor(PageOfPost(t), r.id)
    /\ Classified =>
          \A t \in Range(all_tweets) :
             (/\ \E r \in RetweetRefs(t) : ~InPayload(PageOfPost(t), r.id)
              /\ ~\E r \in RetweetRefs(t) :
                     /\ InPayload(PageOfPost(t), r.id)
                     /\ Str(PayloadAuthor(PageOfPost(t), r.id)) \in user_ids)
             => /\ t \in Range(tweets_to_delete)
                /\ t \notin Range(tweets_to_keep)

\* A retweet of a preserved author, resolved only by the next page's payload,
\* is in the delete list.
C2_Witness ==
    /\ Classified
    /\ Len(client.pages) = 2
    /\ \E t \in Range(tweets_to_delete) :
          \E r \in RetweetRefs(t) :
             /\ ~InPayload(PageOfPost(t), r.id)
             /\ InPayload(client.pages[2], r.id)
             /\ Str(TrueAuthor(r.id)) \in user_ids
             /\ ~Resolved(t, r)

\* C2 as stated: a post with a retweet reference its own page does not
\* resolve is classified Delete.
C2_AsStated ==
    Classified =>
       \A t \in Range(all_tweets) :
          (\E r \in RetweetRefs(t) : ~InPayload(PageOfPost(t), r.id))
          => t \in Range(tweets_to_delete)

-----------------------------------------------------------------------------
(* C3: when no request raised, the list get_all_tweets returns holds the   *)
(* posts of all pages, each once, in page order then in-page order: its    *)
(* length is the sum of the page sizes and no id repeats.                  *)
C3_AllPagesOnceInOrder ==
    (FetchReturned /\ client.fail_at = 0) =>
       /\ AsFetched(all_tweets) = PostsUpTo(client.pages, Len(client.pages))
       /\ Len(all_tweets) = SumSizes(client.pages, Len(client.pages))
       /\ \A a, b \in DOMAIN all_tweets :
             all_tweets[a].id = all_tweets[b].id => a = b

\* Three pages, the second empty, fetched without error.
C3_Witness ==
    /\ FetchReturned
    /\ client.fail_at = 0
    /\ Len(client.pages) = 3
    /\ client.pages[2].data = <<>>
    /\ Len(all_tweets) = 4

-----------------------------------------------------------------------------
(* C4: when the request for page k raises, get_all_tweets returns the      *)
(* posts of pages 1..k-1, has made k requests and makes no more, prints    *)
(* the error, and the run goes on: the handler of __main__ is not reached. *)
C4_ErrorStopsWithPartialResult ==
    /\ (FetchReturned /\ client.fail_at > 0) =>
          /\ AsFetched(all_tweets) = PostsUpTo(client.pages, client.fail_at - 1)
          /\ Len(CallsOf("get_users_tweets")) = client.fail_at
          /\ PageIndex(calls[Len(calls)].token) = client.fail_at
             \/ calls[Len(calls)].op # "get_users_tweets"
          /\ Printed("error_fetching")
          /\ pc # "error"
    /\ Printed("error_fetching") => FetchReturned /\ client.fail_at > 0
    /\ pc = "error" => CallsOf("get_users_tweets") = <<>>

\* The third request raised: the posts of the first two pages are returned.
C4_Witness ==
    /\ FetchReturned
    /\ client.fail_at = 3
    /\ Len(all_tweets) = 4
    /\ pc = "delete"


-----------------------------------------------------------------------------
(* Vocabulary of the executor's properties.                                *)

\* delete_tweets was called; delete_tweets has returned.
ExecutorInvoked == Printed("starting")
ExecutorReturned == pc = "report" \/ Printed("completed")

DeleteCallIds == [k \in DOMAIN CallsOf("delete_tweet") |-> CallsOf("delete_tweet")[k].n]
SimulatedIds ==
    LET said == SelectSeq(output, LAMBDA l : l.tag = "dry_run_would_delete")
    IN [k \in DOMAIN said |-> said[k].args[1]]

\* The posts iterated so far whose delete_tweet call raises, or returns.
IteratedFailing ==
    {k \in 1..i : DeleteRaises(client, tweets_to_delete[k].id)}
IteratedDeleted ==
    {k \in 1..i : ~DeleteRaises(client, tweets_to_delete[k].id)}

GetMe == Call("get_me", "", 0, None)

-----------------------------------------------------------------------------
(* C5: in a dry run delete_tweet is never called, failed_count is 0 and    *)
(* deleted_count is the number of posts iterated, each announced once.     *)
C5_DryRunNeverDeletes ==
    DRY_RUN =>
       /\ CallsOf("delete_tweet") = <<>>
       /\ failed_count = 0
       /\ deleted_count = i
       /\ SimulatedIds = Ids(SubSeq(tweets_to_delete, 1, i))

\* A dry run has gone through three posts.
C5_Witness ==
    /\ DRY_RUN
    /\ pc = "report"
    /\ Len(tweets_to_delete) = 3
    /\ deleted_count = 3

-----------------------------------------------------------------------------
(* C6 as stated: with MAX_TWEETS_TO_PROCESS = N for any N >= 0, at most N  *)
(* delete_tweet calls and at most N simulated deletions are made.          *)
C6_AtMostMaxCount ==
    MAX_TWEETS_TO_PROCESS # None =>
       /\ Len(CallsOf("delete_tweet")) <= MAX_TWEETS_TO_PROCESS[1]
       /\ Len(SimulatedIds) <= MAX_TWEETS_TO_PROCESS[1]

-----------------------------------------------------------------------------
(* C7: in a real run the delete_tweet calls made so far are one per post   *)
(* iterated, in order; deleted_count counts the calls that returned and    *)
(* failed_count those that raised; and when delete_tweets returns every    *)
(* post within the cap has been iterated.                                  *)
C7_OneCallPerPostWhateverFails ==
    ~DRY_RUN =>
       /\ DeleteCallIds = Ids(SubSeq(tweets_to_delete, 1, i))
       /\ deleted_count = Cardinality(IteratedDeleted)
       /\ failed_count = Cardinality(IteratedFailing)
       /\ ExecutorReturned =>
             \A k \in DOMAIN tweets_to_delete :
                (MAX_TWEETS_TO_PROCESS = None \/ k <= MAX_TWEETS_TO_PROCESS[1])
                => k <= i

\* The first of three calls raised and the other two were still made.
C7_Witness ==
    /\ ~DRY_RUN
    /\ pc = "report"
    /\ i = 3
    /\ DeleteRaises(client, tweets_to_delete[1].id)
    /\ failed_count = 1
    /\ deleted_count = 2

-----------------------------------------------------------------------------
(* C8, as amended: in a destructive run delete_tweets is invoked, and any  *)
(* call after get_me is made, only after 'DELETE' was typed; after any     *)
(* other input the run returns with "Aborted." and the only client call of *)
(* it is the get_me of __init__, made before the prompt.                   *)
C8_ConfirmationGate ==
    /\ (~DRY_RUN /\ (ExecutorInvoked \/ Len(calls) > 1))
          => confirm = Some("DELETE")
    /\ confirm \notin {None, Some("DELETE")} =>
          /\ pc = "done"
          /\ Printed("aborted")
          /\ calls = <<GetMe>>
          /\ ~ExecutorInvoked

\* Something else than 'DELETE' was typed.
C8_Witness ==
    /\ ~DRY_RUN
    /\ confirm = Some("delete")
    /\ pc = "done"

\* C8 as stated: after any other input no client call has been made.
C8_AsStated ==
    confirm \notin {None, Some("DELETE")} => calls = <<>>

-----------------------------------------------------------------------------
(* C9: the set get_user_ids_to_preserve builds holds the ids, as strings,  *)
(* of exactly the usernames consumed so far that the client found, so the  *)
(* returned set depends on the usernames and not on their order; every     *)
(* entry is looked up once, in turn, whatever the earlier outcomes; and no *)
(* lookup ends the run in the handler of __main__.                         *)
FoundIds(names) ==
    {Str(AccountId(n)) : n \in {m \in Range(names) : client.directory[m] = "found"}}

C9_ResolverKeepsExactlyTheFound ==
    LET consumed == SubSeq(PRESERVE_RETWEETS_FROM, 1, name_idx)
        looked == CallsOf("get_user")
    IN /\ user_ids = FoundIds(consumed)
       /\ [k \in DOMAIN looked |-> looked[k].name] = consumed
       /\ Printed("fetching") => name_idx = Len(PRESERVE_RETWEETS_FROM)
       /\ pc = "error" => looked = <<>>

\* A lookup that raised was followed by one that found its user.
C9_Witness ==
    /\ Printed("fetching")
    /\ Len(PRESERVE_RETWEETS_FROM) = 2
    /\ client.directory[PRESERVE_RETWEETS_FROM[1]] = "error"
    /\ client.directory[PRESERVE_RETWEETS_FROM[2]] = "found"
    /\ user_ids = {Str(AccountId(PRESERVE_RETWEETS_FROM[2]))}

-----------------------------------------------------------------------------
(* C10: a failed get_me ends the run in the handler of __main__ with no    *)
(* other client call made, and nothing else ends it there: not a lookup,   *)
(* a page request or a delete call that failed.                            *)
C10_OnlyAuthenticationIsFatal ==
    /\ (calls # <<>> /\ ~Printed("authenticated")) =>
          /\ pc = "error"
          /\ calls = <<GetMe>>
    /\ pc = "error" => ~Printed("authenticated")
    /\ (\/ Printed("error_looking_up")
        \/ Printed("warning_not_found")
        \/ Printed("error_fetching")
        \/ Printed("failed_to_delete")) => pc # "error"

\* get_me failed.
C10_Witness ==
    /\ pc = "error"
    /\ calls = <<GetMe>>

-----------------------------------------------------------------------------
(* C11 as stated: when the run is interrupted after delete_tweets started  *)
(* on its posts, what is printed holds the tallies of the deletions done:  *)
(* a line that carries deleted_count and failed_count.                     *)
C11_InterruptReportsTallies ==
    (pc = "interrupted" /\ ExecutorInvoked /\ i >= 1) =>
       \E k \in DOMAIN output :
          /\ Len(output[k].args) >= 2
          /\ output[k].tag \in {"completed", "interrupted"}
          /\ output[k].args[1] = deleted_count
          /\ output[k].args[2] = failed_count

-----------------------------------------------------------------------------
(* The phase a printed line belongs to, in the order run goes through the  *)
(* phases: start, banner and prompt, preserve set, aggregation,            *)
(* classification, deletion, report, and the two handlers of __main__.     *)
PhaseOf(tag) ==
    CASE tag = "authenticated" -> 1
      [] tag \in {"dry_run_mode", "warning", "aborted"} -> 2
      [] tag \in {"will_preserve", "warning_not_found", "error_looking_up"} -> 3
      [] tag \in {"fetching", "fetched_so_far", "error_fetching",
                  "total_fetched"} -> 4
      [] tag \in {"no_tweets_found", "summary", "no_tweets_to_delete"} -> 5
      [] tag \in {"starting", "dry_run_would_delete", "deleted",
                  "failed_to_delete", "reached_maximum"} -> 6
      [] tag = "completed" -> 7
      [] OTHER -> 8

\* The phase the program is in.
PhaseAt(at) ==
    CASE at = "init" -> 0
      [] at = "run" -> 1
      [] at = "resolve" -> 3
      [] at = "fetch" -> 4
      [] at = "classify" -> 5
      [] at = "delete" -> 6
      [] at = "report" -> 7
      [] OTHER -> 8

(* C12, as amended: a run goes through its phases in the order start,      *)
(* prompt (destructive runs only), preserve set, aggregation,              *)
(* classification, deletion, report, and may end after the prompt or the   *)
(* classification; in a destructive run the prompt is answered before the  *)
(* first lookup and page request, so before aggregation and before the     *)
(* first delete call.                                                      *)
C12_PhaseOrder ==
    /\ \A a, b \in DOMAIN output :
          a < b => PhaseOf(output[a].tag) <= PhaseOf(output[b].tag)
    /\ \A a \in DOMAIN output :
          pc \notin {"done", "error", "interrupted"}
             => PhaseOf(output[a].tag) <= PhaseAt(pc)
    /\ (~DRY_RUN /\ Len(calls) > 1) =>
          /\ Printed("warning")
          /\ confirm = Some("DELETE")
    /\ CallsOf("delete_tweet") # <<>> =>
          FetchReturned /\ Classified /\ ExecutorInvoked
    /\ Printed("completed") =>
          FetchReturned /\ Classified /\ ExecutorInvoked

\* A destructive run went through every phase.
C12_Witness ==
    /\ ~DRY_RUN
    /\ pc = "done"
    /\ Printed("completed")
    /\ CallsOf("delete_tweet") # <<>>
    /\ CallsOf("get_user") # <<>>

\* C12 as stated: in a destructive run the confirmation is requested once
\* aggregation and classification have finished.
C12_AsStated ==
    (~DRY_RUN /\ Printed("warning")) => (FetchReturned /\ Classified)

-----------------------------------------------------------------------------
\* The pauses of delete_tweets in the recorded calls.
IsDelayPause(c) == c.op = "sleep" /\ c.n = RATE_LIMIT_DELAY

(* C13 as stated: in a destructive run a pause of RATE_LIMIT_DELAY follows *)
(* each delete_tweet call before the next one, so no two delete_tweet      *)
(* calls are next to each other in the calls made; a dry run never pauses  *)
(* for RATE_LIMIT_DELAY.                                                   *)
C13_PauseBetweenDeleteCalls ==
    /\ \A k \in 1..(Len(calls) - 1) :
          calls[k].op = "delete_tweet" => IsDelayPause(calls[k + 1])
    /\ DRY_RUN => \A k \in DOMAIN calls : ~IsDelayPause(calls[k])

-----------------------------------------------------------------------------
\* The page requests made so far, and the ones that were answered with a page.
Requests == CallsOf("get_users_tweets")
Served == {k \in DOMAIN Requests : ~RequestRaises(client, Requests[k].token)}
ServedPage(k) == client.pages[PageIndex(Requests[k].token)]
ServedEmpty == {k \in Served : ServedPage(k).data = <<>>}

(* C14, as amended: a page without posts adds nothing to the result and    *)
(* prints no error and no progress line; the loop goes on after it exactly *)
(* when the page carries a next token, and ends with it otherwise.         *)
C14_EmptyPageFollowsCursor ==
    /\ \A k \in ServedEmpty :
          IF ServedPage(k).next_token # None
          THEN \/ k < Len(Requests)
               \/ k = Len(Requests) /\ pc \in {"fetch", "interrupted"}
          ELSE k = Len(Requests) /\ pc # "fetch"
    /\ Printed("error_fetching") =>
          \E k \in DOMAIN Requests : k \notin Served
    /\ Len(SelectSeq(output, LAMBDA l : l.tag = "fetched_so_far"))
          = Cardinality(Served \ ServedEmpty)
    /\ Len(all_tweets) =
          SumSizes([k \in DOMAIN Requests |->
                      IF k \in Served THEN ServedPage(k)
                      ELSE Page(<<>>, <<>>, None)], Len(Requests))

\* An empty page with a next token was answered, and the pages after it were
\* requested and brought tweets.
C14_Witness ==
    /\ FetchReturned
    /\ Len(Requests) = 3
    /\ 2 \in ServedEmpty
    /\ 3 \in Served \ ServedEmpty
    /\ Len(all_tweets) > Len(ServedPage(1).data)

\* C14 as stated: no page request follows a page without posts.
C14_AsStated ==
    \A k \in ServedEmpty : k = Len(Requests) /\ pc # "fetch"

-----------------------------------------------------------------------------
\* The request that was made last, and whether it ended the loop: it raised,
\* or its page carries no next token.
LastRequest == Len(Requests)
LastEnds ==
    /\ Requests # <<>>
    /\ \/ LastRequest \notin Served
       \/ ServedPage(LastRequest).next_token = None

(* C15: the first get_users_tweets call carries no pagination token, every *)
(* later one the next token of the page answered just before it, and       *)
(* get_all_tweets returns exactly when a request raised or was answered    *)
(* with a page without next token: as long as neither happened the next    *)
(* page is requested, however many pages were answered.                    *)
C15_CursorProtocol ==
    /\ Requests # <<>> => Requests[1].token = None
    /\ \A k \in 1..(LastRequest - 1) :
          /\ k \in Served
          /\ ServedPage(k).next_token # None
          /\ Requests[k + 1].token = ServedPage(k).next_token
    /\ pc = "fetch" =>
          pagination_token = IF Requests = <<>> THEN None
                             ELSE ServedPage(LastRequest).next_token
    /\ FetchReturned <=> LastEnds
    /\ (pc = "fetch" /\ Requests # <<>>) => ~LastEnds

\* Every page of the platform was answered, with a next token each, and the
\* loop is still requesting: more requests than there are pages.
C15_Witness ==
    /\ pc = "fetch"
    /\ LastRequest = MaxRequests
    /\ LastRequest > Len(client.pages)
    /\ \A k \in DOMAIN Requests : k \in Served
    /\ ~FetchReturned

-----------------------------------------------------------------------------
\* The ids delete_tweets has gone through, as calls or as simulated deletions.
Issued == IF DRY_RUN THEN SimulatedIds ELSE DeleteCallIds

\* The position of a post in what get_all_tweets returned.
FetchedAt(id) == CHOOSE k \in DOMAIN all_tweets : all_tweets[k].id = id

(* C16: tweets_to_delete holds its posts in the order get_all_tweets       *)
(* returned them, and the delete_tweet calls, or the simulated deletions   *)
(* of a dry run, go through tweets_to_delete from its first post on, one   *)
(* after the other.                                                        *)
C16_DeletionInFetchOrder ==
    Classified =>
       /\ Ids(tweets_to_delete) =
             SelectSeq(Ids(all_tweets),
                       LAMBDA id : id \in Range(Ids(tweets_to_delete)))
       /\ Issued = SubSeq(Ids(tweets_to_delete), 1, i)
       /\ \A a, b \in DOMAIN Issued :
             a < b => FetchedAt(Issued[a]) < FetchedAt(Issued[b])

\* Posts of several pages were deleted by calls, with kept posts between them.
C16_Witness ==
    /\ ~DRY_RUN
    /\ Len(DeleteCallIds) >= 3
    /\ \E a, b \in DOMAIN tweets_to_delete, k \in DOMAIN tweets_to_keep :
          /\ a < b
          /\ FetchedAt(tweets_to_delete[a].id) < FetchedAt(tweets_to_keep[k].id)
          /\ FetchedAt(tweets_to_keep[k].id) < FetchedAt(tweets_to_delete[b].id)

-----------------------------------------------------------------------------
\* The ids a list of tweets holds.
IdSet(tweets) == Range(Ids(tweets))

(* C17: once run has built its two lists, every fetched post is in exactly *)
(* one of them, tweets_to_delete holding the posts should_delete_tweet     *)
(* answers True for; delete_tweet is only ever called with the id of a     *)
(* fetched post of tweets_to_delete, never with the id of a kept one, and  *)
(* before the lists are built it is not called at all.                     *)
C17_ListsPartitionAndOnlyDeleteListIsDeleted ==
    /\ Classified =>
          /\ IdSet(tweets_to_delete) \cup IdSet(tweets_to_keep) = IdSet(all_tweets)
          /\ IdSet(tweets_to_delete) \cap IdSet(tweets_to_keep) = {}
          /\ Len(tweets_to_delete) + Len(tweets_to_keep) = Len(all_tweets)
          /\ \A k \in DOMAIN all_tweets :
                IF should_delete_tweet(all_tweets[k], user_ids)
                THEN all_tweets[k].id \in IdSet(tweets_to_delete)
                ELSE all_tweets[k].id \in IdSet(tweets_to_keep)
    /\ ~Classified => tweets_to_delete = <<>> /\ tweets_to_keep = <<>>
    /\ \A id \in Range(DeleteCallIds) \cup Range(SimulatedIds) :
          /\ id \in IdSet(all_tweets)
          /\ id \in IdSet(tweets_to_delete)
          /\ id \notin IdSet(tweets_to_keep)
          /\ \E k \in Served : id \in IdSet(ServedPage(k).data)

\* A destructive run fetched posts of both kinds and called delete_tweet for
\* every post to delete, while posts were kept.
C17_Witness ==
    /\ ~DRY_RUN
    /\ pc = "done"
    /\ Len(tweets_to_keep) >= 2
    /\ Len(tweets_to_delete) >= 2
    /\ Range(DeleteCallIds) = IdSet(tweets_to_delete)

-----------------------------------------------------------------------------
\* The smaller of two numbers.
Min(a, b) == IF a <= b THEN a ELSE b

(* C18 as stated: while delete_tweets runs deleted_count + failed_count is *)
(* the number of posts iterated, and when it has returned the sum is the   *)
(* smaller of the length of tweets_to_delete and MAX_TWEETS_TO_PROCESS     *)
(* when that is set, and the length of tweets_to_delete when it is None.   *)
C18_TalliesSumToIterated ==
    /\ ExecutorInvoked =>
          /\ deleted_count + failed_count = i
          /\ i <= Len(tweets_to_delete)
    /\ (ExecutorInvoked /\ ExecutorReturned) =>
          deleted_count + failed_count =
             IF MAX_TWEETS_TO_PROCESS = None
             THEN Len(tweets_to_delete)
             ELSE Min(Len(tweets_to_delete), MAX_TWEETS_TO_PROCESS[1])

-----------------------------------------------------------------------------
\* The enrichment of the data model: the record of a post carries the author
\* of each of its own retweet references whose target the page's expansion
\* payload holds, under the key of the target, and nothing else.
OwnKeys(tweet, page) ==
    {AuthorKey(r.id) : r \in {q \in RetweetRefs(tweet) : InPayload(page, q.id)}}
OwnTarget(tweet, key) ==
    (CHOOSE r \in RetweetRefs(tweet) : AuthorKey(r.id) = key).id
OwnRefsRecord(tweet, page) ==
    [id |-> tweet.id,
     referenced_tweets |-> tweet.referenced_tweets,
     authors |-> [key \in OwnKeys(tweet, page) |->
                     PayloadAuthor(page, OwnTarget(tweet, key))]]

\* The keys a record carries beyond those of its own retweet references.
ForeignKeys(tweet) ==
    DOMAIN tweet.authors \ {AuthorKey(r.id) : r \in RetweetRefs(tweet)}

(* C19: for every fetched post and every preserve set, should_delete_tweet *)
(* gives the same answer on the record get_all_tweets built, which carries *)
(* the author of every tweet of the page's expansion payload, as on the    *)
(* record that carries only the authors of the post's own retweet          *)
(* references.                                                             *)
C19_EnrichmentsClassifyAlike ==
    pc = "classify" =>
       \A k \in DOMAIN all_tweets : \A preserve \in PreserveSets :
          should_delete_tweet(all_tweets[k], preserve)
             = should_delete_tweet(
                  OwnRefsRecord(AsFetched(all_tweets)[k],
                                PageOfPost(all_tweets[k])), preserve)

\* A retweet whose record carries, under a key that is not of its own
\* references, an author of the preserve set, and which is to be deleted.
C19_Witness ==
    /\ pc = "classify"
    /\ \E k \in DOMAIN all_tweets :
          /\ RetweetRefs(all_tweets[k]) # {}
          /\ \E key \in ForeignKeys(all_tweets[k]) :
                Str(all_tweets[k].authors[key]) \in user_ids
          /\ should_delete_tweet(all_tweets[k], user_ids)

=============================================================================
